---- MODULE Spec2Model ----
(***************************************************************************)
(* Model of the Rime text-to-speech scripts: rime.py, rime_reader.py and   *)
(* rime_tts.py.                                                            *)
(*                                                                         *)
(* Two specifications are defined over one set of variables:               *)
(*   SpecChunk  chunk_text(text, size) executed step by step on bounded    *)
(*              texts and budgets;                                         *)
(*   Spec       one run of main() of each of the three scripts, split at   *)
(*              its calls to the remote synthesis service and to ffmpeg.   *)
(*                                                                         *)
(* Text is a sequence of one-character strings.  A PCM buffer is the       *)
(* sequence of the pieces that were appended to it.                        *)
(***************************************************************************)
EXTENDS Integers, Sequences, FiniteSets, TLC

VARIABLES
    \* ---- chunk_text (SpecChunk) ----
    text,          \* the argument `text` as passed
    size,          \* the argument `size`
    sentences,     \* the list `sentences`
    chunks,        \* the list `chunks`
    current,       \* the list `current`
    current_len,   \* the counter `current_len`
    idx,           \* number of sentences the packing loop has consumed
    cpc            \* position in chunk_text: "idle", "split", "pack", "done"

VARIABLES
    \* ---- one run of main() (Spec) ----
    prog,          \* which script runs: "rime", "rime_reader" or "rime_tts"
    api_key,       \* os.environ.get("RIME_API_KEY")
    args,          \* the parsed command line
    document,      \* content of the text file or of standard input
    segments,      \* the list `segments` (json.loads(args.segments))
    doc_chunks,    \* the list `chunks` of main (chunk_text(text))
    i,             \* the loop index `i`
    pc,            \* position in main
    all_pcm,       \* the buffer `all_pcm`: the pieces appended, in order
    calls,         \* the calls of synthesize() made so far, in order
    ffmpeg_runs,   \* number of times ffmpeg was started
    ffmpeg_input,  \* the PCM data handed to pcm_to_ogg
    returncode,    \* result.returncode of ffmpeg, Running before it has run
    pcm_file,      \* the scratch file audio.pcm exists
    ogg_file,      \* the output file exists
    stdout,        \* lines printed on standard output
    stderr,        \* diagnostics printed on standard error
    exit_code      \* process exit status, Running while the process runs

cvars == <<text, size, sentences, chunks, current, current_len, idx, cpc>>

ivars == <<prog, api_key, args, document>>

mvars == <<segments, doc_chunks, i, pc, all_pcm, calls, ffmpeg_runs,
           ffmpeg_input, returncode, pcm_file, ogg_file, stdout, stderr,
           exit_code>>

vars == <<cvars, ivars, mvars>>

-----------------------------------------------------------------------------
(* Bounds of the model.                                                    *)

MaxTextLen == 4      \* exhaustive texts over Alphabet up to this length
MaxSents   == 3      \* sentence-structured texts of up to this many words
MaxBudget  == 8      \* budgets 1..MaxBudget

-----------------------------------------------------------------------------
(* Characters and helpers on sequences.                                    *)

SP == " "
NL == "\n"
Whitespace == {SP, NL}
Terminators == {".", "!", "?"}
Alphabet == {"a", ".", "!", "?", SP, NL}

IsSpace(c) == c \in Whitespace

Min(S) == CHOOSE x \in S : \A y \in S : x <= y
Max(S) == CHOOSE x \in S : \A y \in S : x >= y

RECURSIVE Sorted(_)
Sorted(S) == IF S = {} THEN <<>> ELSE <<Min(S)>> \o Sorted(S \ {Min(S)})

RECURSIVE Join(_, _)
\* sep.join(list)
Join(list, sep) ==
    IF list = <<>> THEN <<>>
    ELSE IF Len(list) = 1 THEN list[1]
    ELSE list[1] \o sep \o Join(Tail(list), sep)

\* str.split(): the maximal runs of non-whitespace characters, in order
WordStarts(t) ==
    {k \in 1..Len(t) : ~IsSpace(t[k]) /\ (k = 1 \/ IsSpace(t[k-1]))}
WordEnd(t, s) ==
    Min({j \in s..Len(t) : j = Len(t) \/ IsSpace(t[j+1])})
SplitWhitespace(t) ==
    LET starts == Sorted(WordStarts(t))
    IN  [n \in 1..Len(starts) |-> SubSeq(t, starts[n], WordEnd(t, starts[n]))]

\* str.strip()
Strip(t) ==
    LET solid == {k \in 1..Len(t) : ~IsSpace(t[k])}
    IN  IF solid = {} THEN <<>> ELSE SubSeq(t, Min(solid), Max(solid))

\* str.replace(<<a, b>>, <<x, y>>) for a two-character pattern with a # b:
\* occurrences cannot overlap, so every occurrence is replaced.
Replace2(t, a, b, x, y) ==
    [k \in 1..Len(t) |->
        IF k < Len(t) /\ t[k] = a /\ t[k+1] = b THEN x
        ELSE IF k > 1 /\ t[k-1] = a /\ t[k] = b THEN y
        ELSE t[k]]

\* str.split(<<a, b>>) for a two-character separator with a # b: the
\* fragments between occurrences, empty fragments included.
RECURSIVE Fragments(_, _, _)
Fragments(t, from, seps) ==
    IF seps = <<>> THEN <<SubSeq(t, from, Len(t))>>
    ELSE <<SubSeq(t, from, seps[1] - 1)>> \o Fragments(t, seps[1] + 2, Tail(seps))
Split2(t, a, b) ==
    Fragments(t, 1, Sorted({k \in 1..(Len(t) - 1) : t[k] = a /\ t[k+1] = b}))

-----------------------------------------------------------------------------
(* chunk_text                                                              *)

\* text = " ".join(text.split())
Normalise(t) == Join(SplitWhitespace(t), <<SP>>)

\* s if s.endswith((".", "!", "?")) else s + "."
Terminate(s) == IF s[Len(s)] \in Terminators THEN s ELSE s \o <<".">>

\* text.replace("! ", ".\n").replace("? ", ".\n").split(".\n")
RawSentences(t) ==
    Split2(Replace2(Replace2(t, "!", SP, ".", NL), "?", SP, ".", NL), ".", NL)

RECURSIVE KeepSentences(_)
\* the loop that strips each fragment, drops the empty ones and terminates
KeepSentences(raws) ==
    IF raws = <<>> THEN <<>>
    ELSE LET s == Strip(raws[1])
         IN  (IF s # <<>> THEN <<Terminate(s)>> ELSE <<>>)
             \o KeepSentences(Tail(raws))

SplitSentences(t) == KeepSentences(RawSentences(t))

\* variant of ChunkFull: closes the chunk already when the budget is reached
ChunkFull_AtBudget(cur, cur_len, sentence, sz) ==
    cur_len + Len(sentence) >= sz /\ cur # <<>>

\* the test of the packing loop: current_len + len(sentence) > size and current
ChunkFull(cur, cur_len, sentence, sz) ==
    cur_len + Len(sentence) > sz /\ cur # <<>>

\* current_len after starting a new chunk with `sentence`
RestartLen(sentence) == Len(sentence)

\* one iteration of the packing loop on the triple (chunks, current, current_len)
PackStep(st, sentence, sz) ==
    IF ChunkFull(st.current, st.current_len, sentence, sz)
    THEN [chunks      |-> Append(st.chunks, Join(st.current, <<SP>>)),
          current     |-> <<sentence>>,
          current_len |-> RestartLen(sentence)]
    ELSE [chunks      |-> st.chunks,
          current     |-> Append(st.current, sentence),
          current_len |-> st.current_len + Len(sentence) + 1]

\* if current: chunks.append(" ".join(current))
PackEmit(st) ==
    IF st.current # <<>> THEN Append(st.chunks, Join(st.current, <<SP>>))
    ELSE st.chunks

RECURSIVE PackAll(_, _, _)
PackAll(st, sents, sz) ==
    IF sents = <<>> THEN st
    ELSE PackAll(PackStep(st, sents[1], sz), Tail(sents), sz)

PackInit == [chunks |-> <<>>, current |-> <<>>, current_len |-> 0]

\* chunk_text(text, size) as a function of its arguments
chunk_text(t, sz) == PackEmit(PackAll(PackInit, SplitSentences(Normalise(t)), sz))

-----------------------------------------------------------------------------
(* Inputs of SpecChunk.                                                    *)

RECURSIVE SeqsUpTo(_, _)
SeqsUpTo(S, n) ==
    IF n = 0 THEN {<<>>}
    ELSE LET shorter == SeqsUpTo(S, n - 1)
         IN  shorter \cup {Append(s, x) : s \in {q \in shorter : Len(q) = n - 1}, x \in S}

SentenceWords == {<<"a">>, <<"a", ".">>, <<"a", "a">>}
SentenceSeps  == {<<".", SP>>, <<"!", SP>>, <<"?", SP>>}

RECURSIVE SentenceTexts(_)
\* texts of 1..n words separated by ". ", "! " or "? "
SentenceTexts(n) ==
    IF n = 1 THEN SentenceWords
    ELSE LET shorter == SentenceTexts(n - 1)
         IN  shorter \cup {t \o s \o w : t \in shorter, s \in SentenceSeps, w \in SentenceWords}

ChunkTexts == SeqsUpTo(Alphabet, MaxTextLen) \cup SentenceTexts(MaxSents)
Budgets    == 1..MaxBudget

-----------------------------------------------------------------------------
(* Bounds and inputs of Spec.                                              *)

MaxSegs     == 3     \* segment lists of up to this many entries
MaxDocSents == 3     \* documents of up to this many sentences
LongLen     == 250   \* letters in a long sentence of a document

SAMPLE_RATE == 48000
CHUNK_SIZE  == 400

None    == "None"    \* Python's None where a string may stand
Running == -1

Progs == {"rime", "rime_reader", "rime_tts"}
ApiKeys == {None, "key"}

Hi    == <<"H", "i">>
Bye   == <<"B", "y", "e">>
Yo    == <<"Y", "o">>
Hello == <<"H", "e", "l", "l", "o">>

\* Entries of a --segments list.  A JSON object is a record that has the
\* keys the object has; NotAnObject is any other JSON value (a number, ...).
NotAnObject == [nonobject |-> TRUE]
SegmentPool ==
    { [text |-> Hi],
      [text |-> <<>>, voice |-> "b"],
      [voice |-> "d"],
      [text |-> Bye, voice |-> "c", lang |-> "fra", speed |-> 15, model |-> "mist"],
      [text |-> Yo, model |-> "mist"],
      NotAnObject }
SegmentLists == SeqsUpTo(SegmentPool, MaxSegs)

\* Documents: empty, whitespace only, or sentences ending in "!" joined by
\* blanks, each sentence short ("a!") or long (LongLen letters and "!").
ShortSentence == <<"a", "!">>
LongSentence  == [n \in 1..(LongLen + 1) |-> IF n <= LongLen THEN "a" ELSE "!"]
Documents ==
    {<<>>, <<SP, NL>>}
    \cup {<<SP>> \o Join(l, <<SP>>) \o <<NL>> :
            l \in SeqsUpTo({ShortSentence, LongSentence}, MaxDocSents) \ {<<>>}}

\* Command lines.  text_file and text are None/empty when not given; speed
\* and pause are in tenths (10 is 1.0, 3 is 0.3 seconds).
NoSegments == [given |-> FALSE, valid |-> FALSE, value |-> <<>>]
BadJson    == [given |-> TRUE,  valid |-> FALSE, value |-> <<>>]
SegmentArgs == {NoSegments, BadJson}
               \cup {[given |-> TRUE, valid |-> TRUE, value |-> l] : l \in SegmentLists}

Defaults(p) ==
    [voice |-> IF p = "rime" THEN "atrium" ELSE "luna",
     speed |-> 10,
     lang  |-> None,
     model |-> "arcana",
     pause |-> IF p = "rime_tts" THEN 4 ELSE 3]
Overrides(p) ==
    [voice |-> "cli_voice", speed |-> 12, lang |-> "eng",
     model |-> IF p = "rime_tts" THEN "mistv2" ELSE "arcana",
     pause |-> 5]
Options(p) == {Defaults(p), Overrides(p)}

CommandLine(p, tf, tx, sg, o) ==
    [text_file |-> tf, text |-> tx, segments |-> sg,
     voice |-> o.voice, speed |-> o.speed, lang |-> o.lang,
     model |-> o.model, pause |-> o.pause]

\* rime.py: optional text_file, --text, --segments
\* rime_reader.py: text_file is required, no --text and no --segments
\* rime_tts.py: optional positional text, --segments
CommandLines(p) ==
    IF p = "rime" THEN
        {CommandLine(p, tf, tx, sg, o) :
            tf \in {None, "-"}, tx \in {<<>>, Hello}, sg \in SegmentArgs, o \in Options(p)}
    ELSE IF p = "rime_reader" THEN
        {CommandLine(p, "-", <<>>, NoSegments, o) : o \in Options(p)}
    ELSE
        {CommandLine(p, None, tx, sg, o) :
            tx \in {<<>>, Hello}, sg \in SegmentArgs, o \in Options(p)}

\* The document is read only in document mode; elsewhere it is empty.
ReadsDocument(p, a) ==
    \/ p = "rime_reader"
    \/ p = "rime" /\ ~a.segments.given /\ a.text_file # None

-----------------------------------------------------------------------------
(* Helpers of main.                                                        *)

\* generate_silence(seconds): the number of bytes of the silent buffer
generate_silence(tenths) == 2 * ((SAMPLE_RATE * tenths) \div 10)

\* pieces of a PCM buffer
PcmOf(unit)  == [kind |-> "pcm", unit |-> unit, bytes |-> -1]
SilenceOf(a) == [kind |-> "silence", unit |-> -1, bytes |-> generate_silence(a.pause)]

\* seg.get(key, default)
Get(seg, key, default) == IF key \in DOMAIN seg THEN seg[key] ELSE default

SegText(seg)     == Get(seg, "text", <<>>)
SegVoice(seg, a) == Get(seg, "voice", a.voice)
SegLang(seg, a)  == Get(seg, "lang", a.lang)
SegSpeed(seg, a) == Get(seg, "speed", a.speed)
\* rime_tts.py reads seg.get("model", args.model); rime.py has no --model and
\* calls synthesize without a model, whose parameter defaults to "arcana"
SegModel(p, seg, a) ==
    IF p = "rime_tts" THEN Get(seg, "model", a.model) ELSE "arcana"
ArgModel(p, a) == IF p = "rime_tts" THEN a.model ELSE "arcana"

\* a call synthesize(text, voice, speed, lang, api_key, model) made for the
\* unit of index `unit`; ok tells whether it returned or raised
Call(unit, t, voice, speed, lang, model, ok) ==
    [unit |-> unit, text |-> t, voice |-> voice, speed |-> speed,
     lang |-> lang, model |-> model, ok |-> ok]

Diag(msg, index, voice) == [msg |-> msg, index |-> index, voice |-> voice]

OGG_PATH == "ogg_path"

\* if i < len(units) - 1: all_pcm.extend(silence)
GapAfter(index, n, a) == IF index < n - 1 THEN <<SilenceOf(a)>> ELSE <<>>

MainIdle ==
    /\ prog = "rime" /\ api_key = None /\ args = <<>> /\ document = <<>>
    /\ segments = <<>> /\ doc_chunks = <<>> /\ i = 0 /\ pc = "idle"
    /\ all_pcm = <<>> /\ calls = <<>> /\ ffmpeg_runs = 0 /\ ffmpeg_input = <<>>
    /\ returncode = Running
    /\ pcm_file = FALSE /\ ogg_file = FALSE /\ stdout = <<>> /\ stderr = <<>>
    /\ exit_code = Running

ChunkIdle ==
    /\ text = <<>> /\ size = CHUNK_SIZE /\ sentences = <<>> /\ chunks = <<>>
    /\ current = <<>> /\ current_len = 0 /\ idx = 0 /\ cpc = "idle"

-----------------------------------------------------------------------------
(* SpecChunk: chunk_text step by step.                                     *)

InitChunk ==
    /\ text \in ChunkTexts
    /\ size \in Budgets
    /\ sentences = <<>>
    /\ chunks = <<>>
    /\ current = <<>>
    /\ current_len = 0
    /\ idx = 0
    /\ cpc = "split"
    /\ MainIdle

\* lines 24-30: normalise the whitespace and build `sentences`
ChunkSplit ==
    /\ cpc = "split"
    /\ sentences' = SplitSentences(Normalise(text))
    /\ cpc' = "pack"
    /\ UNCHANGED <<text, size, chunks, current, current_len, idx>>
    /\ UNCHANGED <<ivars, mvars>>

\* lines 35-42: one iteration of `for sentence in sentences`
ChunkPack ==
    /\ cpc = "pack"
    /\ idx < Len(sentences)
    /\ LET st == PackStep([chunks |-> chunks, current |-> current,
                           current_len |-> current_len],
                          sentences[idx + 1], size)
       IN  /\ chunks' = st.chunks
           /\ current' = st.current
           /\ current_len' = st.current_len
    /\ idx' = idx + 1
    /\ UNCHANGED <<text, size, sentences, cpc>>
    /\ UNCHANGED <<ivars, mvars>>

\* lines 43-45: emit the last chunk and return
ChunkEmit ==
    /\ cpc = "pack"
    /\ idx = Len(sentences)
    /\ chunks' = PackEmit([chunks |-> chunks, current |-> current,
                           current_len |-> current_len])
    /\ cpc' = "done"
    /\ UNCHANGED <<text, size, sentences, current, current_len, idx>>
    /\ UNCHANGED <<ivars, mvars>>

NextChunk == ChunkSplit \/ ChunkPack \/ ChunkEmit

SpecChunk == InitChunk /\ [][NextChunk]_vars

-----------------------------------------------------------------------------
(* Spec: one run of main().                                                *)

Init ==
    /\ ChunkIdle
    /\ prog \in Progs
    /\ api_key \in ApiKeys
    /\ args \in CommandLines(prog)
    /\ document \in (IF ReadsDocument(prog, args) THEN Documents ELSE {<<>>})
    /\ segments = <<>> /\ doc_chunks = <<>> /\ i = 0 /\ pc = "start"
    /\ all_pcm = <<>> /\ calls = <<>> /\ ffmpeg_runs = 0 /\ ffmpeg_input = <<>>
    /\ returncode = Running
    /\ pcm_file = FALSE /\ ogg_file = FALSE /\ stdout = <<>> /\ stderr = <<>>
    /\ exit_code = Running

\* rime.py: not args.text_file and not args.text and not args.segments
\* rime_tts.py: not args.text and not args.segments
NoInput ==
    \/ prog = "rime" /\ args.text_file = None /\ args.text = <<>> /\ ~args.segments.given
    \/ prog = "rime_tts" /\ args.text = <<>> /\ ~args.segments.given

\* the branch main takes: if args.segments / elif args.text_file / else
Mode ==
    IF prog = "rime_reader" THEN "document"
    ELSE IF args.segments.given THEN "segments"
    ELSE IF prog = "rime" /\ args.text_file # None THEN "document"
    ELSE "single"

\* variant of Ready: the credential is not looked at
Ready_WithoutKey == pc = "start" /\ ~NoInput

\* main has passed the checks of the command line and of the environment
Ready == pc = "start" /\ ~NoInput /\ api_key # None

\* the process ends with `code` after printing `diag` on standard error
Die(diag, code) ==
    /\ stderr' = Append(stderr, diag)
    /\ exit_code' = code
    /\ pc' = "exit"

\* parser.error(...): usage message, exit status 2
UsageError ==
    /\ pc = "start"
    /\ NoInput
    /\ Die(Diag("usage", -1, ""), 2)
    /\ UNCHANGED <<cvars, ivars, segments, doc_chunks, i, all_pcm, calls,
                   ffmpeg_runs, ffmpeg_input, returncode, pcm_file, ogg_file,
                   stdout>>

\* if not api_key: print("Error: RIME_API_KEY not set"); sys.exit(1)
MissingApiKey ==
    /\ pc = "start"
    /\ ~NoInput
    /\ api_key = None
    /\ Die(Diag("no_api_key", -1, ""), 1)
    /\ UNCHANGED <<cvars, ivars, segments, doc_chunks, i, all_pcm, calls,
                   ffmpeg_runs, ffmpeg_input, returncode, pcm_file, ogg_file,
                   stdout>>

\* except json.JSONDecodeError: print("Error parsing --segments JSON"); exit 1
SegmentsJsonError ==
    /\ Ready
    /\ Mode = "segments"
    /\ ~args.segments.valid
    /\ Die(Diag("segments_json", -1, ""), 1)
    /\ UNCHANGED <<cvars, ivars, segments, doc_chunks, i, all_pcm, calls,
                   ffmpeg_runs, ffmpeg_input, returncode, pcm_file, ogg_file,
                   stdout>>

\* segments = json.loads(args.segments)
LoadSegments ==
    /\ Ready
    /\ Mode = "segments"
    /\ args.segments.valid
    /\ segments' = args.segments.value
    /\ i' = 0
    /\ pc' = "segments"
    /\ UNCHANGED <<cvars, ivars, doc_chunks, all_pcm, calls, ffmpeg_runs,
                   ffmpeg_input, returncode, pcm_file, ogg_file, stdout,
                   stderr, exit_code>>

\* text = text.strip(); if not text: print("Error: document is empty"); exit 1
DocumentEmpty ==
    /\ Ready
    /\ Mode = "document"
    /\ Strip(document) = <<>>
    /\ Die(Diag("document_empty", -1, ""), 1)
    /\ UNCHANGED <<cvars, ivars, segments, doc_chunks, i, all_pcm, calls,
                   ffmpeg_runs, ffmpeg_input, returncode, pcm_file, ogg_file,
                   stdout>>

\* chunks = chunk_text(text)
LoadDocument ==
    /\ Ready
    /\ Mode = "document"
    /\ Strip(document) # <<>>
    /\ doc_chunks' = chunk_text(Strip(document), CHUNK_SIZE)
    /\ i' = 0
    /\ pc' = "document"
    /\ UNCHANGED <<cvars, ivars, segments, all_pcm, calls, ffmpeg_runs,
                   ffmpeg_input, returncode, pcm_file, ogg_file, stdout,
                   stderr, exit_code>>

\* ---- multi-voice mode: for i, seg in enumerate(segments) ----

InSegments == pc = "segments" /\ i < Len(segments)

SegmentCall(seg, ok) ==
    Call(i, SegText(seg), SegVoice(seg, args), SegSpeed(seg, args),
         SegLang(seg, args), SegModel(prog, seg, args), ok)

\* seg.get on a list entry that is not a JSON object raises AttributeError,
\* which nothing catches: traceback on standard error, exit status 1
SegmentNotAnObject ==
    /\ InSegments
    /\ segments[i + 1] = NotAnObject
    /\ Die(Diag("traceback", i, ""), 1)
    /\ UNCHANGED <<cvars, ivars, segments, doc_chunks, i, all_pcm, calls,
                   ffmpeg_runs, ffmpeg_input, returncode, pcm_file, ogg_file,
                   stdout>>

\* variant of SegmentSkip: a skipped position still gets its gap
SegmentSkip_AddsGap ==
    /\ pc = "segments" /\ i < Len(segments)
    /\ segments[i + 1] # NotAnObject
    /\ SegText(segments[i + 1]) = <<>>
    /\ all_pcm' = all_pcm \o GapAfter(i, Len(segments), args)
    /\ i' = i + 1
    /\ UNCHANGED <<cvars, ivars, segments, doc_chunks, pc, calls,
                   ffmpeg_runs, ffmpeg_input, returncode, pcm_file, ogg_file,
                   stdout, stderr, exit_code>>

\* if not text: continue
SegmentSkip ==
    /\ InSegments
    /\ segments[i + 1] # NotAnObject
    /\ SegText(segments[i + 1]) = <<>>
    /\ i' = i + 1
    /\ UNCHANGED <<cvars, ivars, segments, doc_chunks, pc, all_pcm, calls,
                   ffmpeg_runs, ffmpeg_input, returncode, pcm_file, ogg_file,
                   stdout, stderr, exit_code>>

\* pcm = synthesize(...); all_pcm.extend(pcm);
\* if i < len(segments) - 1: all_pcm.extend(silence)
SegmentSynthesized ==
    /\ InSegments
    /\ segments[i + 1] # NotAnObject
    /\ SegText(segments[i + 1]) # <<>>
    /\ calls' = Append(calls, SegmentCall(segments[i + 1], TRUE))
    /\ all_pcm' = all_pcm \o <<PcmOf(i)>> \o GapAfter(i, Len(segments), args)
    /\ i' = i + 1
    /\ UNCHANGED <<cvars, ivars, segments, doc_chunks, pc, ffmpeg_runs,
                   ffmpeg_input, returncode, pcm_file, ogg_file, stdout,
                   stderr, exit_code>>

\* variant of SegmentSynthesisFailed: the error is reported and the loop
\* goes on with the next segment
SegmentSynthesisFailed_Continues ==
    /\ pc = "segments" /\ i < Len(segments)
    /\ segments[i + 1] # NotAnObject
    /\ SegText(segments[i + 1]) # <<>>
    /\ calls' = Append(calls, SegmentCall(segments[i + 1], FALSE))
    /\ stderr' = Append(stderr, Diag("segment", i, SegVoice(segments[i + 1], args)))
    /\ i' = i + 1
    /\ UNCHANGED <<cvars, ivars, segments, doc_chunks, pc, all_pcm,
                   ffmpeg_runs, ffmpeg_input, returncode, pcm_file, ogg_file,
                   stdout, exit_code>>

\* except Exception: print("Error on segment {i} (voice={voice})"); exit 1
SegmentSynthesisFailed ==
    /\ InSegments
    /\ segments[i + 1] # NotAnObject
    /\ SegText(segments[i + 1]) # <<>>
    /\ calls' = Append(calls, SegmentCall(segments[i + 1], FALSE))
    /\ Die(Diag("segment", i, SegVoice(segments[i + 1], args)), 1)
    /\ UNCHANGED <<cvars, ivars, segments, doc_chunks, i, all_pcm,
                   ffmpeg_runs, ffmpeg_input, returncode, pcm_file, ogg_file,
                   stdout>>

\* ---- document mode: for i, chunk in enumerate(chunks) ----

InDocument == pc = "document" /\ i < Len(doc_chunks)

ChunkCall(ok) ==
    Call(i, doc_chunks[i + 1], args.voice, args.speed, args.lang,
         ArgModel(prog, args), ok)

\* pcm = synthesize(chunk, ...); all_pcm.extend(pcm);
\* if i < len(chunks) - 1: all_pcm.extend(silence)
ChunkSynthesized ==
    /\ InDocument
    /\ calls' = Append(calls, ChunkCall(TRUE))
    /\ all_pcm' = all_pcm \o <<PcmOf(i)>> \o GapAfter(i, Len(doc_chunks), args)
    /\ i' = i + 1
    /\ UNCHANGED <<cvars, ivars, segments, doc_chunks, pc, ffmpeg_runs,
                   ffmpeg_input, returncode, pcm_file, ogg_file, stdout,
                   stderr, exit_code>>

\* except Exception: print("Error on chunk {i}"); exit 1
ChunkSynthesisFailed ==
    /\ InDocument
    /\ calls' = Append(calls, ChunkCall(FALSE))
    /\ Die(Diag("chunk", i, ""), 1)
    /\ UNCHANGED <<cvars, ivars, segments, doc_chunks, i, all_pcm,
                   ffmpeg_runs, ffmpeg_input, returncode, pcm_file, ogg_file,
                   stdout>>

\* ---- single-voice mode ----

SingleCall(ok) ==
    Call(0, args.text, args.voice, args.speed, args.lang,
         ArgModel(prog, args), ok)

\* all_pcm.extend(synthesize(args.text, ...))
SingleSynthesized ==
    /\ Ready
    /\ Mode = "single"
    /\ calls' = Append(calls, SingleCall(TRUE))
    /\ all_pcm' = all_pcm \o <<PcmOf(0)>>
    /\ pc' = "encode"
    /\ UNCHANGED <<cvars, ivars, segments, doc_chunks, i, ffmpeg_runs,
                   ffmpeg_input, returncode, pcm_file, ogg_file, stdout,
                   stderr, exit_code>>

\* except Exception: print("Error calling Rime API"); exit 1
SingleSynthesisFailed ==
    /\ Ready
    /\ Mode = "single"
    /\ calls' = Append(calls, SingleCall(FALSE))
    /\ Die(Diag("api", -1, ""), 1)
    /\ UNCHANGED <<cvars, ivars, segments, doc_chunks, i, all_pcm,
                   ffmpeg_runs, ffmpeg_input, returncode, pcm_file, ogg_file,
                   stdout>>

\* ---- pcm_to_ogg(bytes(all_pcm), ogg_path); print(ogg_path) ----

\* control has reached the call of pcm_to_ogg
AtEncode ==
    \/ pc = "encode"
    \/ pc = "segments" /\ i = Len(segments)
    \/ pc = "document" /\ i = Len(doc_chunks)

\* variant of EncodeSucceeded: audio.pcm is not removed
EncodeSucceeded_KeepsScratch ==
    /\ AtEncode
    /\ ffmpeg_runs' = ffmpeg_runs + 1
    /\ ffmpeg_input' = all_pcm
    /\ returncode' = 0
    /\ pcm_file' = TRUE
    /\ ogg_file' = TRUE
    /\ pc' = "print"
    /\ UNCHANGED <<cvars, ivars, segments, doc_chunks, i, all_pcm, calls,
                   stdout, stderr, exit_code>>

\* audio.pcm is written, ffmpeg exits 0, audio.pcm is removed
EncodeSucceeded ==
    /\ AtEncode
    /\ ffmpeg_runs' = ffmpeg_runs + 1
    /\ ffmpeg_input' = all_pcm
    /\ returncode' = 0
    /\ pcm_file' = FALSE
    /\ ogg_file' = TRUE
    /\ pc' = "print"
    /\ UNCHANGED <<cvars, ivars, segments, doc_chunks, i, all_pcm, calls,
                   stdout, stderr, exit_code>>

\* audio.pcm is written, ffmpeg exits non-zero: "ffmpeg error", exit 1;
\* what ffmpeg leaves at the output path is its own business
EncodeFailed ==
    /\ AtEncode
    /\ ffmpeg_runs' = ffmpeg_runs + 1
    /\ ffmpeg_input' = all_pcm
    /\ returncode' = 1
    /\ pcm_file' = TRUE
    /\ ogg_file' \in BOOLEAN
    /\ Die(Diag("ffmpeg", -1, ""), 1)
    /\ UNCHANGED <<cvars, ivars, segments, doc_chunks, i, all_pcm, calls, stdout>>

\* print(ogg_path), then main returns
PrintPath ==
    /\ pc = "print"
    /\ stdout' = Append(stdout, OGG_PATH)
    /\ exit_code' = 0
    /\ pc' = "exit"
    /\ UNCHANGED <<cvars, ivars, segments, doc_chunks, i, all_pcm, calls,
                   ffmpeg_runs, ffmpeg_input, returncode, pcm_file, ogg_file,
                   stderr>>

Next ==
    \/ UsageError
    \/ MissingApiKey
    \/ SegmentsJsonError
    \/ LoadSegments
    \/ DocumentEmpty
    \/ LoadDocument
    \/ SegmentNotAnObject
    \/ SegmentSkip
    \/ SegmentSynthesized
    \/ SegmentSynthesisFailed
    \/ ChunkSynthesized
    \/ ChunkSynthesisFailed
    \/ SingleSynthesized
    \/ SingleSynthesisFailed
    \/ EncodeSucceeded
    \/ EncodeFailed
    \/ PrintPath

Spec == Init /\ [][Next]_vars

-----------------------------------------------------------------------------
(* Vocabulary of the properties.                                           *)

PcmPieces(buf)     == SelectSeq(buf, LAMBDA piece : piece.kind = "pcm")
SilencePieces(buf) == SelectSeq(buf, LAMBDA piece : piece.kind = "silence")

RECURSIVE Interleave(_, _)
\* p1, gap, p2, gap, ..., pN
Interleave(pieces, gap) ==
    IF Len(pieces) <= 1 THEN pieces
    ELSE <<pieces[1], gap>> \o Interleave(Tail(pieces), gap)

\* positions of `calls` whose synthesize() raised
FailedCalls == {k \in 1..Len(calls) : ~calls[k].ok}

\* list positions 0..i-1 of `segments` whose entry was synthesized
Synthesizable(seg) == seg # NotAnObject /\ SegText(seg) # <<>>
SynthesizedBefore(n) == {k \in 0..(n - 1) : Synthesizable(segments[k + 1])}

\* the sentence boundaries of a normalised text: ". ", "! " and "? "
Boundaries(t) == {k \in 1..(Len(t) - 1) : t[k] \in Terminators /\ t[k+1] = SP}
BoundaryFragments(t) == Fragments(t, 1, Sorted(Boundaries(t)))
NonEmptyFragments(t) ==
    {k \in 1..Len(BoundaryFragments(t)) : Strip(BoundaryFragments(t)[k]) # <<>>}

-----------------------------------------------------------------------------
(* Properties of chunk_text, checked under SpecChunk.                      *)

\* C2: a chunk of two or more sentences, joined by single blanks, is never
\* longer than the budget; this is stated of `current`, the sentences of
\* the chunk being built, which is what every chunk is joined from.
C2_MultiSentenceChunkWithinBudget ==
    Len(current) >= 2 => Len(Join(current, <<SP>>)) <= size

\* C4: the sentence list has one entry per non-empty fragment of the
\* normalised text delimited by ". ", "! " or "? ".
C4_EveryTerminatorBlankIsBoundary ==
    cpc \in {"pack", "done"} =>
        Len(sentences) = Cardinality(NonEmptyFragments(Normalise(text)))

\* C6 as stated: every text shorter than the budget, the empty and the
\* whitespace-only text included, gives exactly one chunk.
C6_ShortTextOneChunk ==
    (cpc = "done" /\ Len(text) < size) => Len(chunks) = 1

\* C6 as amended: a text shorter than the budget gives exactly one chunk
\* when it has a non-whitespace character, and no chunk when it has none.
C6_ShortTextOneChunkUnlessBlank ==
    (cpc = "done" /\ Len(text) < size) =>
        Len(chunks) = (IF Strip(text) = <<>> THEN 0 ELSE 1)

\* a text shorter than the budget, of two sentences of which the last had
\* its terminator appended, was packed into one chunk
C6_Witness ==
    /\ cpc = "done"
    /\ Len(text) < size
    /\ Len(sentences) >= 2
    /\ text[Len(text)] \notin Terminators
    /\ Len(chunks) = 1

-----------------------------------------------------------------------------
(* Properties of main, checked under Spec.                                 *)

\* C1: in document and multi-segment mode the buffer handed to the encoder
\* is pcm_1, gap, pcm_2, ..., pcm_N for the N >= 1 synthesized units in list
\* order: N-1 gaps, none before pcm_1 and none after pcm_N.
C1_EncoderInputIsInterleaved ==
    (ffmpeg_runs > 0 /\ Mode \in {"document", "segments"} /\ Len(calls) >= 1) =>
        ffmpeg_input =
            Interleave([k \in 1..Len(calls) |-> PcmOf(calls[k].unit)], SilenceOf(args))

\* C3 for all three modes: a failed synthesis call is the last call of the
\* run, the encoder is not run, neither file is written, nothing is printed
\* on standard output and the exit status is non-zero.
C3_AbortsOn(k) ==
    /\ k = Len(calls)
    /\ \A j \in 1..(k - 1) : calls[j].ok /\ calls[j].unit < calls[k].unit
    /\ ffmpeg_runs = 0 /\ returncode = Running
    /\ ~pcm_file /\ ~ogg_file
    /\ stdout = <<>>
    /\ Len(stderr) = 1
    /\ pc = "exit" /\ exit_code \notin {0, Running}

C5_GapAfterEveryNonFinalPosition ==
    pc = "segments" =>
        Len(SilencePieces(all_pcm)) = Cardinality({k \in 0..(i - 1) : k < Len(segments) - 1})

\* C5 as amended: in multi-segment mode one silence buffer is appended for
\* every list position passed that is not the last and whose segment was
\* synthesized; a skipped position appends nothing.  For ["Hi", "", "Bye"]
\* that is two calls, for "Hi" and "Bye", and one gap, after index 0.
C5_GapAfterSynthesizedNonFinalPosition ==
    pc = "segments" =>
        /\ Len(SilencePieces(all_pcm)) =
               Cardinality({k \in SynthesizedBefore(i) : k < Len(segments) - 1})
        /\ Len(calls) = Cardinality(SynthesizedBefore(i))
        /\ (i = 3 /\ Len(segments) = 3 /\ SegText(segments[1]) = Hi
              /\ SegText(segments[2]) = <<>> /\ SegText(segments[3]) = Bye) =>
                /\ Len(calls) = 2
                /\ calls[1].text = Hi /\ calls[2].text = Bye
                /\ all_pcm = <<PcmOf(0), SilenceOf(args), PcmOf(2)>>

\* the list ["Hi", "", "Bye"] has been worked through
C5_Witness ==
    /\ pc = "segments" /\ i = 3 /\ Len(segments) = 3
    /\ segments[1] # NotAnObject /\ segments[2] # NotAnObject /\ segments[3] # NotAnObject
    /\ SegText(segments[1]) = Hi /\ SegText(segments[2]) = <<>> /\ SegText(segments[3]) = Bye
    /\ Len(calls) = 2

\* the outcomes that count as a precondition failure
PreconditionFailure ==
    /\ Len(stderr) = 1
    /\ stderr[1].msg \in {"usage", "no_api_key", "document_empty", "segments_json"}

\* C7: a run that ends in a precondition failure (no credential, no input,
\* empty document, malformed segment JSON) exits non-zero with no synthesis
\* call made, the encoder not run and nothing on standard output; a run
\* without the credential ends so in every input mode.
C7_PreconditionFailureDoesNoWork ==
    /\ PreconditionFailure =>
          /\ pc = "exit" /\ exit_code \notin {0, Running}
          /\ calls = <<>> /\ ffmpeg_runs = 0 /\ stdout = <<>>
    /\ (pc # "start" /\ (\/ api_key = None
                         \/ NoInput
                         \/ Mode = "segments" /\ ~args.segments.valid
                         \/ Mode = "document" /\ Strip(document) = <<>>))
          => PreconditionFailure

\* a run with a well-formed, non-empty segment list and no credential ended
C7_Witness ==
    /\ pc = "exit"
    /\ api_key = None
    /\ Mode = "segments" /\ args.segments.valid /\ Len(args.segments.value) >= 2
    /\ PreconditionFailure

\* C8: ffmpeg runs at most once and after every synthesis call has returned;
\* when the run has ended the scratch file exists exactly if ffmpeg ran and
\* exited non-zero; on exit 0 the scratch file is gone before the path is
\* printed and the run exits 0; on non-zero nothing is printed and the run
\* exits non-zero.
C8_EncoderOnceScratchIffFailed ==
    /\ ffmpeg_runs <= 1
    /\ (ffmpeg_runs = 0) <=> (returncode = Running)
    /\ ffmpeg_runs = 1 =>
          /\ \A k \in 1..Len(calls) : calls[k].ok
          /\ Len(PcmPieces(ffmpeg_input)) = Len(calls)
    /\ pc = "exit" => (pcm_file <=> (ffmpeg_runs = 1 /\ returncode # 0))
    /\ stdout # <<>> => ~pcm_file /\ returncode = 0 /\ stdout = <<OGG_PATH>>
    /\ (pc = "exit" /\ returncode = 0) => stdout = <<OGG_PATH>> /\ exit_code = 0
    /\ returncode \notin {0, Running} =>
          pcm_file /\ stdout = <<>> /\ pc = "exit" /\ exit_code \notin {0, Running}

\* ffmpeg exited non-zero after two synthesis calls and left the scratch file
C8_Witness ==
    /\ pc = "exit"
    /\ returncode = 1
    /\ pcm_file
    /\ Len(calls) >= 2

\* C9: in multi-segment mode each call uses, for voice, language, speed and
\* model, the segment's own value when the record has the field and the
\* command line's value when it has not, in rime.py and in rime_tts.py.
C9_SegmentFieldsResolved ==
    (Mode = "segments" /\ pc # "start") =>
        \A k \in 1..Len(calls) :
            LET seg == segments[calls[k].unit + 1]
            IN  /\ calls[k].voice = Get(seg, "voice", args.voice)
                /\ calls[k].lang  = Get(seg, "lang", args.lang)
                /\ calls[k].speed = Get(seg, "speed", args.speed)
                /\ calls[k].model = Get(seg, "model", args.model)

\* C10: whenever ffmpeg is run, a synthesis call has succeeded and its PCM
\* is in the buffer handed over.
C10_EncoderInputHasAudio ==
    ffmpeg_runs > 0 =>
        /\ \E k \in 1..Len(calls) : calls[k].ok
        /\ PcmPieces(ffmpeg_input) # <<>>

====
